---- MODULE Spec2Model ----
(***************************************************************************)
(* A model of the file server: file_protocol.py (FileProtocol, the command *)
(* handlers over the storage directory) and file_server_processpool.py     *)
(* (handle_client, the per-connection session loop, and Server.run, the    *)
(* accept loop that submits connections to a ProcessPoolExecutor).         *)
(*                                                                         *)
(* Text is a sequence of characters, each a string.  An ASCII character is *)
(* a one-character string; "\\r", "\\n" and "\\t" (a backslash and a       *)
(* letter) are CR, LF and TAB; "u00E9" is the character U+00E9, whose      *)
(* UTF-8 encoding is the two bytes "xC3" "xA9".  A byte of the wire is a   *)
(* string as well: an ASCII byte is the character it encodes.  The bytes   *)
(* of a file are numbers 0..255.                                           *)
(***************************************************************************)
EXTENDS Integers, Sequences, FiniteSets, TLC

VARIABLES
    fs,        \* the filesystem: resolved path -> [dir, data]
    fs0,       \* the filesystem at start-up (history)
    suite,     \* which set of command strings a direct caller of proses_string passes
    budget,    \* how many direct proses_string calls may still be made
    calls,     \* the direct proses_string calls made: <<[cmd, resp, acc]>> (history)
    tosend,    \* per connection: the segments the client has still to send
    sockbuf,   \* per connection: bytes arrived at the server, not yet read by recv
    peer,      \* per connection: the client's end: "new", "open", "shutwr", "closed"
               \*   (shutwr: it has sent FIN and still reads; closed: it is gone)
    st,        \* per connection: "none", "backlog", "queued", "running", "closed",
               \*   "reset" (never accepted: the listening socket was closed)
    pc,        \* per session: "recv" (line 20), "handle" (lines 24-27), "send" (line 28),
               \*   "hung" (stopped for good inside a signal handler)
    buffer,    \* per session: handle_client's buffer
    hasil,     \* per session: the response computed and not yet sent
    out,       \* per connection: the response frames written by sendall
    rcvd,      \* per connection: every byte recv has returned (history)
    cmds,      \* per connection: the command strings given to proses_string (history)
    atstart,   \* per connection: the bytes waiting when its session began (history)
    ended,     \* per connection: why the session loop was left ("eof", "timeout",
               \*   "decode", "recv_error", "send_error"), "" while it has not
    backlog,   \* the listen queue: connections completed and not yet accepted
    queue,     \* the executor's pending work items, in submission order
    worker,    \* per worker: the connection whose task it runs, 0 when idle
    ranby,     \* per connection: the workers that have run its session (history)
    main,      \* the server's main thread: "accept" (the loop of lines 65-70),
               \*   "drain" (in signal_handler, inside executor.shutdown(wait=True)),
               \*   "exited"
    lsock,     \* the listening socket: "open", "closed"
    sigto,     \* the processes the termination signal has reached: 0 (the server), workers
    atsignal,  \* the connections queued when the signal reached the server (history)
    race       \* per handler call of the step-by-step handlers: its position and
               \*   locals; <<>> where handlers are taken as one step

vars == <<fs, fs0, suite, budget, calls, tosend, sockbuf, peer, st, pc, buffer, hasil, out,
          rcvd, cmds, atstart, ended, backlog, queue, worker, ranby,
          main, lsock, sigto, atsignal, race>>

protoVars == <<fs, fs0, suite, budget, calls>>
connVars == <<tosend, sockbuf, peer, st, pc, buffer, hasil, out, rcvd, cmds,
              atstart, ended, backlog, queue, worker, ranby>>
mainVars == <<main, lsock, sigto, atsignal>>
ctlVars == <<mainVars, race>>

(***************************************************************************)
(* Bounds of the model.                                                    *)
(***************************************************************************)
\* pool_size: the number of worker processes of the executor
PoolSize == 1
\* how many handlers run at the same time, each in a worker of its own, where
\* the handlers are taken system call by system call
NumRacers == 2
\* how many direct proses_string calls one behaviour of SpecProto makes
MaxCalls == 3
\* how many direct proses_string calls one behaviour of SpecReject makes
MaxBadCalls == 2

\* connections: one more than the pool has workers
NumConns == PoolSize + 1
Conns == 1..NumConns
Workers == 1..PoolSize

(***************************************************************************)
(* Characters and strings.                                                 *)
(***************************************************************************)
CR == "\\r"
LF == "\\n"
TAB == "\\t"
SP == " "

\* the characters str.strip() removes
Whitespace == {SP, TAB, LF, CR}

NonAscii == {"u00E9", "u00C9"}

LowerCase == <<"a","b","c","d","e","f","g","h","i","j","k","l","m",
               "n","o","p","q","r","s","t","u","v","w","x","y","z">>
UpperCase == <<"A","B","C","D","E","F","G","H","I","J","K","L","M",
               "N","O","P","Q","R","S","T","U","V","W","X","Y","Z">>

\* str.upper() on one character
UpperChar(ch) ==
    IF \E i \in 1..26 : LowerCase[i] = ch
    THEN UpperCase[CHOOSE i \in 1..26 : LowerCase[i] = ch]
    ELSE IF ch = "u00E9" THEN "u00C9" ELSE ch

\* a verb compared as it was written
upper_Identity(s) == s

\* str.upper()
upper(s) == [i \in 1..Len(s) |-> UpperChar(s[i])]

Min(a, b) == IF a < b THEN a ELSE b

\* sub in s
Contains(s, sub) ==
    \E i \in 1..(Len(s) - Len(sub) + 1) : SubSeq(s, i, i + Len(sub) - 1) = sub

\* s.find(sub) + 1: the place of the first occurrence, 0 when there is none
Find(s, sub) ==
    IF Contains(s, sub)
    THEN CHOOSE i \in 1..(Len(s) - Len(sub) + 1) :
            /\ SubSeq(s, i, i + Len(sub) - 1) = sub
            /\ \A j \in 1..(i - 1) : SubSeq(s, j, j + Len(sub) - 1) # sub
    ELSE 0

RECURSIVE lstrip(_)
lstrip(s) ==
    IF s # <<>> /\ Head(s) \in Whitespace THEN lstrip(Tail(s)) ELSE s

RECURSIVE rstrip(_)
rstrip(s) ==
    IF s # <<>> /\ s[Len(s)] \in Whitespace
    THEN rstrip(SubSeq(s, 1, Len(s) - 1))
    ELSE s

\* str.strip()
strip(s) == rstrip(lstrip(s))

\* str.split(sep, maxsplit) for a separator sep of any length
RECURSIVE split(_, _, _)
split(s, sep, maxsplit) ==
    LET i == Find(s, sep) IN
    IF maxsplit = 0 \/ i = 0
    THEN <<s>>
    ELSE <<SubSeq(s, 1, i - 1)>>
            \o split(SubSeq(s, i + Len(sep), Len(s)), sep, maxsplit - 1)

(***************************************************************************)
(* bytes.decode() and str.encode(): UTF-8.                                 *)
(***************************************************************************)
Utf8Lead == "xC3"
Utf8Cont == "xA9"

\* str.encode() of one character
EncodeChar(ch) == IF ch = "u00E9" THEN <<Utf8Lead, Utf8Cont>> ELSE <<ch>>

RECURSIVE encode(_)
encode(s) == IF s = <<>> THEN <<>> ELSE EncodeChar(Head(s)) \o encode(Tail(s))

\* whether bytes.decode() succeeds: a lead byte needs its continuation byte
RECURSIVE Decodable(_)
Decodable(data) ==
    IF data = <<>> THEN TRUE
    ELSE IF Head(data) = Utf8Lead
         THEN Len(data) >= 2 /\ data[2] = Utf8Cont
                /\ Decodable(SubSeq(data, 3, Len(data)))
         ELSE Head(data) # Utf8Cont /\ Decodable(Tail(data))

\* bytes.decode() of decodable bytes
RECURSIVE decode(_)
decode(data) ==
    IF data = <<>> THEN <<>>
    ELSE IF Head(data) = Utf8Lead
         THEN <<"u00E9">> \o decode(SubSeq(data, 3, Len(data)))
         ELSE <<Head(data)>> \o decode(Tail(data))

(***************************************************************************)
(* base64.b64encode and base64.b64decode (binascii, not strict).           *)
(***************************************************************************)
B64Chars == <<"A","B","C","D","E","F","G","H","I","J","K","L","M",
              "N","O","P","Q","R","S","T","U","V","W","X","Y","Z",
              "a","b","c","d","e","f","g","h","i","j","k","l","m",
              "n","o","p","q","r","s","t","u","v","w","x","y","z",
              "0","1","2","3","4","5","6","7","8","9","+","/">>

\* the six bits a character stands for, 64 for a character outside the alphabet
B64Value(ch) ==
    IF \E i \in 1..64 : B64Chars[i] = ch
    THEN (CHOOSE i \in 1..64 : B64Chars[i] = ch) - 1
    ELSE 64

RECURSIVE b64encode(_)
b64encode(data) ==
    IF data = <<>> THEN <<>>
    ELSE IF Len(data) = 1
    THEN <<B64Chars[(data[1] \div 4) + 1], B64Chars[((data[1] % 4) * 16) + 1],
           "=", "=">>
    ELSE IF Len(data) = 2
    THEN <<B64Chars[(data[1] \div 4) + 1],
           B64Chars[((data[1] % 4) * 16 + (data[2] \div 16)) + 1],
           B64Chars[((data[2] % 16) * 4) + 1], "=">>
    ELSE <<B64Chars[(data[1] \div 4) + 1],
           B64Chars[((data[1] % 4) * 16 + (data[2] \div 16)) + 1],
           B64Chars[((data[2] % 16) * 4 + (data[3] \div 64)) + 1],
           B64Chars[(data[3] % 64) + 1]>>
            \o b64encode(SubSeq(data, 4, Len(data)))

\* binascii.a2b_base64: characters outside the alphabet are skipped, a pad that
\* completes a quad ends the data, an incomplete quad at the end is an error
RECURSIVE a2b_base64(_, _, _, _, _)
a2b_base64(s, quad_pos, leftchar, pads, bin) ==
    IF s = <<>>
    THEN [ok |-> quad_pos = 0, data |-> bin]
    ELSE LET ch == Head(s)
             v == B64Value(ch)
         IN  IF ch = "="
             THEN IF quad_pos >= 2 /\ quad_pos + pads + 1 >= 4
                  THEN [ok |-> TRUE, data |-> bin]
                  ELSE a2b_base64(Tail(s), quad_pos, leftchar,
                                  IF quad_pos >= 2 THEN pads + 1 ELSE pads, bin)
             ELSE IF v >= 64
             THEN a2b_base64(Tail(s), quad_pos, leftchar, pads, bin)
             ELSE IF quad_pos = 0
             THEN a2b_base64(Tail(s), 1, v, 0, bin)
             ELSE IF quad_pos = 1
             THEN a2b_base64(Tail(s), 2, v % 16, 0,
                             Append(bin, leftchar * 4 + (v \div 16)))
             ELSE IF quad_pos = 2
             THEN a2b_base64(Tail(s), 3, v % 4, 0,
                             Append(bin, leftchar * 16 + (v \div 4)))
             ELSE a2b_base64(Tail(s), 0, 0, 0, Append(bin, leftchar * 64 + v))

\* base64.b64decode(s) of a str: a str with a non-ASCII character raises as well
b64decode(s) ==
    IF \E i \in 1..Len(s) : s[i] \in NonAscii
    THEN [ok |-> FALSE, data |-> <<>>]
    ELSE a2b_base64(s, 0, 0, 0, <<>>)

(***************************************************************************)
(* The filesystem.  A path is the sequence of the names that lead from the *)
(* root directory to an entry; fs maps the paths that exist to their       *)
(* entries, a directory or a regular file with its bytes.                  *)
(***************************************************************************)
\* FileProtocol.storage_path: "files"
storage_path == <<"f","i","l","e","s">>

\* the working directory of the server process
Cwd == << <<"s","r","v">> >>

\* the storage directory, resolved
StorageDir == Append(Cwd, storage_path)

DirNode == [dir |-> TRUE, data |-> <<>>]
FileNode(data) == [dir |-> FALSE, data |-> data]

IsDir(fsys, p) == p \in DOMAIN fsys /\ fsys[p].dir

\* os.path.join(a, b)
path_join(a, b) ==
    IF b # <<>> /\ Head(b) = "/" THEN b ELSE a \o <<"/">> \o b

\* the kernel's walk along the components of a path string: every component
\* but the last has to be a directory; "" and "." stay, ".." goes up
RECURSIVE Walk(_, _, _)
Walk(fsys, cur, comps) ==
    IF comps = <<>> THEN [err |-> "", path |-> cur]
    ELSE IF cur \notin DOMAIN fsys THEN [err |-> "FileNotFoundError", path |-> cur]
    ELSE IF ~fsys[cur].dir THEN [err |-> "NotADirectoryError", path |-> cur]
    ELSE LET c == Head(comps) IN
         IF c = <<>> \/ c = <<".">> THEN Walk(fsys, cur, Tail(comps))
         ELSE IF c = <<".", ".">>
         THEN Walk(fsys, SubSeq(cur, 1, Len(cur) - 1), Tail(comps))
         ELSE Walk(fsys, Append(cur, c), Tail(comps))

\* the entry a path string names, from the working directory
Resolve(fsys, pathstr) ==
    Walk(fsys, IF pathstr # <<>> /\ Head(pathstr) = "/" THEN <<>> ELSE Cwd,
         split(pathstr, <<"/">>, -1))

\* os.path.exists
path_exists(fsys, pathstr) ==
    LET r == Resolve(fsys, pathstr) IN r.err = "" /\ r.path \in DOMAIN fsys

\* os.path.isfile
path_isfile(fsys, pathstr) ==
    LET r == Resolve(fsys, pathstr) IN
    r.err = "" /\ r.path \in DOMAIN fsys /\ ~fsys[r.path].dir

\* os.path.getsize of a regular file
path_getsize(fsys, pathstr) == Len(fsys[Resolve(fsys, pathstr).path].data)

\* WriteFile with the file opened to append ('ab') instead of truncated ('wb')
WriteFile_Append(fsys, pathstr, data) ==
    LET r == Resolve(fsys, pathstr) IN
    IF r.err # "" THEN [err |-> r.err, fs |-> fsys, acc |-> {}]
    ELSE IF IsDir(fsys, r.path)
    THEN [err |-> "IsADirectoryError", fs |-> fsys, acc |-> {}]
    ELSE [err |-> "",
          fs |-> [p \in DOMAIN fsys \cup {r.path} |->
                    IF p = r.path
                    THEN FileNode((IF p \in DOMAIN fsys THEN fsys[p].data ELSE <<>>)
                                    \o data)
                    ELSE fsys[p]],
          acc |-> {<<"write", r.path>>}]

\* with open(path, 'wb') as f: f.write(data)
\* [err, fs, acc]: the exception's name ("" for none), the filesystem after,
\* and the entries written
WriteFile(fsys, pathstr, data) ==
    LET r == Resolve(fsys, pathstr) IN
    IF r.err # "" THEN [err |-> r.err, fs |-> fsys, acc |-> {}]
    ELSE IF IsDir(fsys, r.path)
    THEN [err |-> "IsADirectoryError", fs |-> fsys, acc |-> {}]
    ELSE [err |-> "",
          fs |-> [p \in DOMAIN fsys \cup {r.path} |->
                    IF p = r.path THEN FileNode(data) ELSE fsys[p]],
          acc |-> {<<"write", r.path>>}]

\* with open(path, 'rb') as f: f.read()
ReadFile(fsys, pathstr) ==
    LET r == Resolve(fsys, pathstr) IN
    IF r.err # "" THEN [err |-> r.err, data |-> <<>>, acc |-> {}]
    ELSE IF r.path \notin DOMAIN fsys
    THEN [err |-> "FileNotFoundError", data |-> <<>>, acc |-> {}]
    ELSE IF fsys[r.path].dir
    THEN [err |-> "IsADirectoryError", data |-> <<>>, acc |-> {}]
    ELSE [err |-> "", data |-> fsys[r.path].data, acc |-> {<<"read", r.path>>}]

\* os.remove that takes a missing file as removed
RemoveFile_MissingOk(fsys, pathstr) ==
    LET r == Resolve(fsys, pathstr) IN
    IF r.err # "" THEN [err |-> r.err, fs |-> fsys, acc |-> {}]
    ELSE IF r.path \in DOMAIN fsys /\ fsys[r.path].dir
    THEN [err |-> "IsADirectoryError", fs |-> fsys, acc |-> {}]
    ELSE [err |-> "",
          fs |-> [p \in DOMAIN fsys \ {r.path} |-> fsys[p]],
          acc |-> {<<"remove", r.path>>}]

\* RemoveFile that checks and reports as os.remove does and removes nothing
RemoveFile_NoUnlink(fsys, pathstr) ==
    LET r == Resolve(fsys, pathstr) IN
    IF r.err # "" THEN [err |-> r.err, fs |-> fsys, acc |-> {}]
    ELSE IF r.path \notin DOMAIN fsys
    THEN [err |-> "FileNotFoundError", fs |-> fsys, acc |-> {}]
    ELSE IF fsys[r.path].dir
    THEN [err |-> "IsADirectoryError", fs |-> fsys, acc |-> {}]
    ELSE [err |-> "", fs |-> fsys, acc |-> {<<"remove", r.path>>}]

\* os.remove(path)
RemoveFile(fsys, pathstr) ==
    LET r == Resolve(fsys, pathstr) IN
    IF r.err # "" THEN [err |-> r.err, fs |-> fsys, acc |-> {}]
    ELSE IF r.path \notin DOMAIN fsys
    THEN [err |-> "FileNotFoundError", fs |-> fsys, acc |-> {}]
    ELSE IF fsys[r.path].dir
    THEN [err |-> "IsADirectoryError", fs |-> fsys, acc |-> {}]
    ELSE [err |-> "",
          fs |-> [p \in DOMAIN fsys \ {r.path} |-> fsys[p]],
          acc |-> {<<"remove", r.path>>}]

\* the names os.listdir(storage_path) returns, as a set
DirNames(fsys) ==
    {p[Len(p)] : p \in {q \in DOMAIN fsys :
                          /\ Len(q) = Len(StorageDir) + 1
                          /\ SubSeq(q, 1, Len(StorageDir)) = StorageDir}}

\* the orders os.listdir(storage_path) may return them in
Listings(fsys) ==
    LET names == DirNames(fsys)
        n == Cardinality(names)
    IN  {l \in [1..n -> names] : \A i, j \in 1..n : i # j => l[i] # l[j]}

(***************************************************************************)
(* FileProtocol.  A response is the record json.dumps serialises; its      *)
(* 'data' text is the pair of the format string and the value put into it. *)
(***************************************************************************)
\* _is_valid_filename's length limit
MaxFilenameLen == 255

dangerous_chars ==
    << <<".", ".">>, <<"/">>, <<"\\">>, <<":">>, <<"*">>, <<"?">>,
       <<"\"">>, <<"<">>, <<">">>, <<"|">> >>

\* _is_valid_filename without its length check
_is_valid_filename_NoLength(filename) ==
    /\ filename # <<>>
    /\ \A k \in 1..Len(dangerous_chars) : ~Contains(filename, dangerous_chars[k])

\* _is_valid_filename with '..' and '/' missing from dangerous_chars
_is_valid_filename_NoTraversal(filename) ==
    /\ filename # <<>>
    /\ \A k \in 3..Len(dangerous_chars) : ~Contains(filename, dangerous_chars[k])
    /\ Len(filename) <= MaxFilenameLen

_is_valid_filename(filename) ==
    /\ filename # <<>>
    /\ \A k \in 1..Len(dangerous_chars) : ~Contains(filename, dangerous_chars[k])
    /\ Len(filename) <= MaxFilenameLen

Error(fmt, arg) == [status |-> "ERROR", data |-> <<fmt, arg>>]

\* a handler's result: the response, the filesystem after, the entries touched
Result(resp, fsys, acc) == [resp |-> resp, fs |-> fsys, acc |-> acc]

_handle_upload(fsys, parts) ==
    IF Len(parts) < 3
    THEN Result(Error("UPLOAD command requires filename and content", <<>>), fsys, {})
    ELSE LET filename == parts[2]
             base64_content == parts[3]
         IN
         IF ~_is_valid_filename(filename)
         THEN Result(Error("Invalid filename", <<>>), fsys, {})
         ELSE LET dec == b64decode(base64_content) IN
              IF ~dec.ok
              THEN Result(Error("Invalid base64 content", <<>>), fsys, {})
              ELSE LET w == WriteFile(fsys, path_join(storage_path, filename), dec.data) IN
                   IF w.err # ""
                   THEN Result(Error("Upload failed: {e}", <<w.err>>), fsys, {})
                   ELSE Result([status |-> "OK",
                                data |-> <<"File {filename} uploaded successfully", filename>>,
                                file_size |-> Len(dec.data)],
                               w.fs, w.acc)

_handle_get(fsys, parts) ==
    IF Len(parts) < 2
    THEN Result(Error("GET command requires filename", <<>>), fsys, {})
    ELSE LET filename == parts[2]
             file_path == path_join(storage_path, filename)
         IN
         IF ~_is_valid_filename(filename)
         THEN Result(Error("Invalid filename", <<>>), fsys, {})
         ELSE IF ~path_exists(fsys, file_path)
         THEN Result(Error("File not found: {filename}", filename), fsys, {})
         ELSE LET r == ReadFile(fsys, file_path) IN
              IF r.err # ""
              THEN Result(Error("Get failed: {e}", <<r.err>>), fsys, {})
              ELSE Result([status |-> "OK",
                           data |-> <<"File {filename} retrieved successfully", filename>>,
                           data_file |-> b64encode(r.data),
                           file_size |-> Len(r.data)],
                          fsys, r.acc)

\* the loop of _handle_list over the names os.listdir returned
RECURSIVE ListFiles(_, _)
ListFiles(fsys, listing) ==
    IF listing = <<>> THEN <<>>
    ELSE LET filename == Head(listing)
             file_path == path_join(storage_path, filename)
         IN  (IF path_isfile(fsys, file_path)
              THEN <<[filename |-> filename, size |-> path_getsize(fsys, file_path)]>>
              ELSE <<>>)
                \o ListFiles(fsys, Tail(listing))

_handle_list(fsys, listing) ==
    LET files == ListFiles(fsys, listing) IN
    Result([status |-> "OK",
            data |-> <<"File list retrieved successfully", <<>> >>,
            files |-> files,
            count |-> Len(files)],
           fsys, {})

_handle_delete(fsys, parts) ==
    IF Len(parts) < 2
    THEN Result(Error("DELETE command requires filename", <<>>), fsys, {})
    ELSE LET filename == parts[2]
             file_path == path_join(storage_path, filename)
         IN
         IF ~_is_valid_filename(filename)
         THEN Result(Error("Invalid filename", <<>>), fsys, {})
         ELSE IF ~path_exists(fsys, file_path)
         THEN Result(Error("File not found: {filename}", filename), fsys, {})
         ELSE LET r == RemoveFile(fsys, file_path) IN
              IF r.err # ""
              THEN Result(Error("Delete failed: {e}", <<r.err>>), fsys, {})
              ELSE Result([status |-> "OK",
                           data |-> <<"File {filename} deleted successfully", filename>>],
                          r.fs, r.acc)

UPLOAD == <<"U","P","L","O","A","D">>
GET == <<"G","E","T">>
LIST == <<"L","I","S","T">>
DELETE == <<"D","E","L","E","T","E">>

\* proses_string(command_string), with the filesystem it runs on and the order
\* os.listdir returns the storage directory in
proses_string(fsys, command_string, listing) ==
    LET parts == split(strip(command_string), <<SP>>, 2)
        command == upper(parts[1])
    IN  IF command = UPLOAD THEN _handle_upload(fsys, parts)
        ELSE IF command = GET THEN _handle_get(fsys, parts)
        ELSE IF command = LIST THEN _handle_list(fsys, listing)
        ELSE IF command = DELETE THEN _handle_delete(fsys, parts)
        ELSE Result(Error("Unknown command: {command}", command), fsys, {})

(***************************************************************************)
(* Inputs: filenames, file contents, command strings, start-up states.     *)
(***************************************************************************)
NameA == <<"a">>
NameB == <<"b">>
NameDot == <<".">>
\* a directory inside the storage directory
NameSub == <<"d">>
\* a file beside the storage directory, outside it
NameSecret == <<"s">>
\* the longest filename the validator accepts, and the shortest it does not
NameMax == [i \in 1..MaxFilenameLen |-> "n"]
NameLong == [i \in 1..(MaxFilenameLen + 1) |-> "n"]

Cmd1(verb) == verb
Cmd2(verb, filename) == verb \o <<SP>> \o filename
Cmd3(verb, filename, payload) == verb \o <<SP>> \o filename \o <<SP>> \o payload

\* file contents: 0, 1, 2 and 3 bytes, every padding of base64
Contents == {<<>>, <<72>>, <<72, 105>>, <<0, 255, 16>>}

\* filenames the validator rejects
RejectedNames ==
    { <<".", ".">>, <<".", ".", "/">> \o NameSecret, <<"a", "/", "b">>,
      <<"a", "\\", "b">>, NameLong }
\* names that would lead out of the storage directory
EscapingNames ==
    { <<".", ".", "/">> \o NameSecret, <<"/", "x">>,
      NameSub \o <<"/", ".", ".", "/", ".", ".", "/">> \o NameSecret }
BadNames == RejectedNames \cup EscapingNames
BadCharNames ==
    { <<"a", ch>> : ch \in {":", "*", "?", "\"", "<", ">", "|"} }

StoreCommands ==
    {Cmd3(UPLOAD, NameA, b64encode(B)) : B \in Contents}
        \cup {Cmd3(UPLOAD, NameB, b64encode(B)) : B \in {<<>>, <<0, 255, 16>>}}
        \cup {Cmd3(UPLOAD, NameDot, b64encode(<<72>>))}
        \cup {Cmd2(GET, f) : f \in {NameA, NameB, NameDot}}
        \cup {Cmd2(DELETE, f) : f \in {NameA, NameB, NameSub}}
        \cup {Cmd1(LIST)}

\* every verb, with and without a payload, on the names of the rejection claim
RejectCommands ==
    {Cmd3(UPLOAD, f, b64encode(<<72>>)) : f \in RejectedNames \cup {NameA}}
        \cup {Cmd2(v, f) : v \in {UPLOAD, GET, DELETE, LIST}, f \in RejectedNames}
        \cup {Cmd1(LIST)}

\* commands that try to leave the storage directory, and commands that stay in it
BoundaryCommands ==
    {Cmd3(UPLOAD, f, b64encode(<<72>>)) : f \in EscapingNames \cup {NameA, NameMax, NameDot}}
        \cup {Cmd2(v, f) : v \in {GET, DELETE}, f \in EscapingNames \cup {NameA}}
        \cup {Cmd2(GET, f) : f \in BadCharNames \cup {NameSecret, NameDot}}
        \cup {Cmd2(<<"g", "e", "t">>, <<".", ".", "/">> \o NameSecret)}
        \cup {Cmd2(DELETE, NameSub), Cmd1(LIST)}

\* commands with a verb that is none of the four, each with the verb as
\* str.upper() gives it
UnknownCases ==
    { [cmd |-> Cmd2(<<"F", "O", "O">>, <<"b", "a", "r">>), verb |-> <<"F", "O", "O">>],
      [cmd |-> Cmd2(<<"f", "o", "o">>, <<"b", "a", "r">>), verb |-> <<"F", "O", "O">>],
      [cmd |-> <<SP, SP>> \o Cmd1(<<"F", "o", "o">>), verb |-> <<"F", "O", "O">>],
      [cmd |-> Cmd2(<<"l", "i", "s", "t", "s">>, NameA), verb |-> <<"L", "I", "S", "T", "S">>],
      [cmd |-> Cmd3(<<"S", "T", "O", "R", "E">>, NameB, b64encode(<<72>>)),
       verb |-> <<"S", "T", "O", "R", "E">>],
      [cmd |-> <<"g", "e", "t", TAB>> \o NameA, verb |-> <<"G", "E", "T", TAB, "A">>],
      [cmd |-> Cmd2(<<"u00E9">>, NameA), verb |-> <<"u00C9">>],
      [cmd |-> <<>>, verb |-> <<>>] }

\* commands with one of the four verbs in lower or mixed case, each with the
\* same command in upper case
KnownCases ==
    { [cmd |-> Cmd1(<<"l", "i", "s", "t">>), same |-> Cmd1(LIST)],
      [cmd |-> Cmd2(<<"G", "e", "t">>, NameA), same |-> Cmd2(GET, NameA)],
      [cmd |-> Cmd2(<<"d", "e", "l", "e", "t", "e">>, NameA), same |-> Cmd2(DELETE, NameA)],
      [cmd |-> Cmd3(<<"u", "p", "L", "O", "A", "D">>, NameB, b64encode(<<72>>)),
       same |-> Cmd3(UPLOAD, NameB, b64encode(<<72>>))] }

\* payloads that are the base64 text of some bytes
ValidPayloads == {b64encode(B) : B \in Contents \ {<<>>}}

\* payloads that are not: a missing pad, a lone character, a character that
\* is not ASCII; and characters outside the alphabet, pads alone, a
\* character between the others, text after the pad
InvalidPayloads ==
    { <<"S", "G", "k">>, <<"S">>, <<"S", "G", "k", "=", "u00E9">>,
      <<"!", "!", "!", "!">>, <<"=", "=", "=", "=">>,
      <<"S", "G", "!", "k", "=">>,
      <<"S", "G", "k", "=", "S", "G", "k", "=">> }

PayloadCommands ==
    {Cmd3(UPLOAD, NameA, p) : p \in ValidPayloads \cup InvalidPayloads}
        \cup {Cmd2(GET, NameA)}

VerbCommands == {u.cmd : u \in UnknownCases} \cup {k.cmd : k \in KnownCases}

\* the command strings of the suite the behaviour runs
Inputs ==
    IF suite = "reject" THEN RejectCommands
    ELSE IF suite = "verbs" THEN VerbCommands
    ELSE IF suite = "payload" THEN PayloadCommands
    ELSE IF suite = "boundary" THEN BoundaryCommands
    ELSE StoreCommands

\* the storage directory as FileProtocol.__init__ leaves it, empty, and a
\* file beside it
FsEmpty ==
    [p \in {<<>>, Cwd, StorageDir, Append(Cwd, NameSecret)} |->
        IF p = Append(Cwd, NameSecret) THEN FileNode(<<83>>) ELSE DirNode]

\* a storage directory that holds a file and a directory
FsUsed ==
    [p \in DOMAIN FsEmpty \cup {Append(StorageDir, NameA), Append(StorageDir, NameSub)} |->
        IF p = Append(StorageDir, NameA) THEN FileNode(<<72, 105>>)
        ELSE IF p = Append(StorageDir, NameSub) THEN DirNode
        ELSE FsEmpty[p]]

(***************************************************************************)
(* Direct calls of FileProtocol.proses_string, one after the other.        *)
(***************************************************************************)
\* the server serving, no signal received
InitMain ==
    /\ main = "accept"
    /\ lsock = "open"
    /\ sigto = {}
    /\ atsignal = {}

\* no client, the server's sockets untouched
InitNoConns ==
    /\ InitMain
    /\ tosend = [c \in Conns |-> <<>>]
    /\ sockbuf = [c \in Conns |-> <<>>]
    /\ peer = [c \in Conns |-> "closed"]
    /\ st = [c \in Conns |-> "none"]
    /\ pc = [c \in Conns |-> "recv"]
    /\ buffer = [c \in Conns |-> <<>>]
    /\ hasil = [c \in Conns |-> <<>>]
    /\ out = [c \in Conns |-> <<>>]
    /\ rcvd = [c \in Conns |-> <<>>]
    /\ cmds = [c \in Conns |-> <<>>]
    /\ atstart = [c \in Conns |-> <<>>]
    /\ ended = [c \in Conns |-> ""]
    /\ backlog = <<>>
    /\ queue = <<>>
    /\ worker = [w \in Workers |-> 0]
    /\ ranby = [c \in Conns |-> {}]

InitConnsIdle ==
    /\ InitNoConns
    /\ race = <<>>

InitProto ==
    /\ fs \in {FsEmpty, FsUsed}
    /\ fs0 = fs
    /\ suite = "store"
    /\ budget = MaxCalls
    /\ calls = <<>>
    /\ InitConnsIdle

InitReject ==
    /\ fs \in {FsEmpty, FsUsed}
    /\ fs0 = fs
    /\ suite = "reject"
    /\ budget = MaxBadCalls
    /\ calls = <<>>
    /\ InitConnsIdle

InitBoundary ==
    /\ fs \in {FsEmpty, FsUsed}
    /\ fs0 = fs
    /\ suite = "boundary"
    /\ budget = MaxBadCalls
    /\ calls = <<>>
    /\ InitConnsIdle

InitVerbs ==
    /\ fs \in {FsEmpty, FsUsed}
    /\ fs0 = fs
    /\ suite = "verbs"
    /\ budget = MaxBadCalls
    /\ calls = <<>>
    /\ InitConnsIdle

InitPayload ==
    /\ fs \in {FsEmpty, FsUsed}
    /\ fs0 = fs
    /\ suite = "payload"
    /\ budget = MaxBadCalls
    /\ calls = <<>>
    /\ InitConnsIdle

\* fp.proses_string(command_string)
ProsesString(command_string, listing) ==
    /\ budget > 0
    /\ LET r == proses_string(fs, command_string, listing) IN
        /\ fs' = r.fs
        /\ calls' = Append(calls, [cmd |-> command_string, resp |-> r.resp,
                                   acc |-> r.acc])
    /\ budget' = budget - 1
    /\ UNCHANGED <<fs0, suite, connVars, ctlVars>>

NextProto ==
    \E command_string \in Inputs, listing \in Listings(fs) :
        ProsesString(command_string, listing)

SpecProto == InitProto /\ [][NextProto]_vars
SpecReject == InitReject /\ [][NextProto]_vars
SpecBoundary == InitBoundary /\ [][NextProto]_vars
SpecVerbs == InitVerbs /\ [][NextProto]_vars
SpecPayload == InitPayload /\ [][NextProto]_vars

(***************************************************************************)
(* The server: clients, Server.run and handle_client.                      *)
(***************************************************************************)
\* the frame delimiter "\r\n\r\n"
DELIM == <<CR, LF, CR, LF>>

\* socket.listen(10)
ListenBacklog == 10
\* connection.recv(1024*1024)
RecvSize == 1048576

Frame(command) == encode(command) \o DELIM

\* the ways a byte stream reaches the server in at most three segments
Chunkings(stream) ==
    {SelectSeq(<<SubSeq(stream, 1, i), SubSeq(stream, i + 1, j),
                 SubSeq(stream, j + 1, Len(stream))>>,
               LAMBDA seg : seg # <<>>) :
        i \in 0..Len(stream), j \in 0..Len(stream)}

\* the streams of one client alone: UPLOAD then LIST; a frame and an unfinished
\* one; a non-ASCII filename; line ends around the delimiter
SessionStreams ==
    { Frame(Cmd3(UPLOAD, NameA, b64encode(<<72, 105>>))) \o Frame(Cmd1(LIST)),
      Frame(Cmd1(LIST)) \o encode(Cmd2(GET, NameA)) \o <<CR, LF>>,
      Frame(Cmd1(LIST)) \o Frame(Cmd2(GET, <<"u00E9">>)),
      Frame(Cmd2(GET, NameA) \o <<CR, LF>>) \o <<CR, LF>> \o Frame(Cmd1(LIST)) }

SessionPlans == UNION {Chunkings(stream) : stream \in SessionStreams}

\* the segments of a client among others: one frame; and a frame with the
\* first byte of a non-ASCII filename, then the rest
PlanAscii == <<Frame(Cmd1(LIST))>>
PlanSplitChar ==
    <<Frame(Cmd1(LIST)) \o encode(GET \o <<SP>>) \o <<Utf8Lead>>,
      <<Utf8Cont>> \o DELIM>>

InitServer ==
    /\ fs = FsEmpty
    /\ fs0 = fs
    /\ suite = "none"
    /\ budget = 0
    /\ calls = <<>>
    /\ sockbuf = [c \in Conns |-> <<>>]
    /\ st = [c \in Conns |-> "none"]
    /\ pc = [c \in Conns |-> "recv"]
    /\ buffer = [c \in Conns |-> <<>>]
    /\ hasil = [c \in Conns |-> <<>>]
    /\ out = [c \in Conns |-> <<>>]
    /\ rcvd = [c \in Conns |-> <<>>]
    /\ cmds = [c \in Conns |-> <<>>]
    /\ atstart = [c \in Conns |-> <<>>]
    /\ ended = [c \in Conns |-> ""]
    /\ backlog = <<>>
    /\ queue = <<>>
    /\ worker = [w \in Workers |-> 0]
    /\ ranby = [c \in Conns |-> {}]
    /\ InitMain
    /\ race = <<>>

\* PoolSize + 1 clients, one command each
Init ==
    /\ InitServer
    /\ peer = [c \in Conns |-> "new"]
    /\ tosend = [c \in Conns |-> PlanAscii]

\* PoolSize + 1 clients; the last one's stream has a non-ASCII filename
InitQueue ==
    /\ InitServer
    /\ peer = [c \in Conns |-> "new"]
    /\ tosend = [c \in Conns |-> IF c = NumConns THEN PlanSplitChar ELSE PlanAscii]

\* one client, with every stream and every way to segment it
InitSession ==
    /\ InitServer
    /\ peer = [c \in Conns |-> IF c = 1 THEN "new" ELSE "closed"]
    /\ \E plan \in SessionPlans :
        tosend = [c \in Conns |-> IF c = 1 THEN plan ELSE <<>>]

\* the client connects: the connection waits in the listen queue
ClientConnect(c) ==
    /\ peer[c] = "new"
    /\ lsock = "open"
    /\ Len(backlog) < ListenBacklog
    /\ peer' = [peer EXCEPT ![c] = "open"]
    /\ st' = [st EXCEPT ![c] = "backlog"]
    /\ backlog' = Append(backlog, c)
    /\ UNCHANGED <<protoVars, ctlVars, tosend, sockbuf, pc, buffer, hasil, out, rcvd, cmds,
                   atstart, ended, queue, worker, ranby>>

\* the client's next segment arrives in the socket's receive buffer
ClientSend(c) ==
    /\ peer[c] = "open"
    /\ st[c] \in {"backlog", "queued", "running"}
    /\ tosend[c] # <<>>
    /\ sockbuf' = [sockbuf EXCEPT ![c] = @ \o Head(tosend[c])]
    /\ tosend' = [tosend EXCEPT ![c] = Tail(@)]
    /\ UNCHANGED <<protoVars, ctlVars, peer, st, pc, buffer, hasil, out, rcvd, cmds,
                   atstart, ended, backlog, queue, worker, ranby>>

\* the client has sent everything and shuts its sending side down
ClientShutdown(c) ==
    /\ peer[c] = "open"
    /\ st[c] \in {"backlog", "queued", "running"}
    /\ tosend[c] = <<>>
    /\ peer' = [peer EXCEPT ![c] = "shutwr"]
    /\ UNCHANGED <<protoVars, ctlVars, tosend, sockbuf, st, pc, buffer, hasil, out, rcvd, cmds,
                   atstart, ended, backlog, queue, worker, ranby>>

\* the client has sent everything and closes its socket without reading on
ClientClose(c) ==
    /\ peer[c] = "open"
    /\ st[c] \in {"backlog", "queued", "running"}
    /\ tosend[c] = <<>>
    /\ peer' = [peer EXCEPT ![c] = "closed"]
    /\ UNCHANGED <<protoVars, ctlVars, tosend, sockbuf, st, pc, buffer, hasil, out, rcvd, cmds,
                   atstart, ended, backlog, queue, worker, ranby>>

\* Server.run: accept() returns the oldest connection and executor.submit
\* queues handle_client for it
Accept ==
    /\ main = "accept"
    /\ backlog # <<>>
    /\ LET c == Head(backlog) IN
        /\ st' = [st EXCEPT ![c] = "queued"]
        /\ queue' = Append(queue, c)
    /\ backlog' = Tail(backlog)
    /\ UNCHANGED <<protoVars, ctlVars, tosend, sockbuf, peer, pc, buffer, hasil, out, rcvd,
                   cmds, atstart, ended, worker, ranby>>

\* a worker that takes work items while it is running one
WorkerIdle_Always(w) == TRUE

\* a worker process of the pool runs one call at a time
WorkerIdle(w) == worker[w] = 0

\* a call queue that keeps the work item a worker has taken
Dequeue_Keep(q) == q

\* the call queue without the work item a worker has taken
Dequeue(q) == Tail(q)

\* an idle worker takes the oldest work item and enters handle_client
WorkerStart(w) ==
    /\ WorkerIdle(w)
    /\ queue # <<>>
    /\ LET c == Head(queue) IN
        /\ worker' = [worker EXCEPT ![w] = c]
        /\ st' = [st EXCEPT ![c] = "running"]
        /\ pc' = [pc EXCEPT ![c] = "recv"]
        /\ buffer' = [buffer EXCEPT ![c] = <<>>]
        /\ atstart' = [atstart EXCEPT ![c] = sockbuf[c]]
        /\ ranby' = [ranby EXCEPT ![c] = @ \cup {w}]
    /\ queue' = Dequeue(queue)
    /\ UNCHANGED <<protoVars, ctlVars, tosend, sockbuf, peer, hasil, out, rcvd, cmds,
                   ended, backlog>>

\* the inner loop's test: "\r\n\r\n" in buffer
NextPc(buf) == IF Contains(buf, DELIM) THEN "handle" ELSE "recv"

\* leaving the loop without the finally clause: the socket stays open
Finish_KeepOpen(c, reason) ==
    /\ ended' = [ended EXCEPT ![c] = reason]
    /\ worker' = [w \in Workers |-> IF worker[w] = c THEN 0 ELSE worker[w]]
    /\ buffer' = [buffer EXCEPT ![c] = <<>>]
    /\ hasil' = [hasil EXCEPT ![c] = <<>>]
    /\ UNCHANGED <<st, sockbuf>>

\* leaving the loop in a worker that takes no further work item
Finish_KeepsWorker(c, reason) ==
    /\ st' = [st EXCEPT ![c] = "closed"]
    /\ sockbuf' = [sockbuf EXCEPT ![c] = <<>>]
    /\ ended' = [ended EXCEPT ![c] = reason]
    /\ buffer' = [buffer EXCEPT ![c] = <<>>]
    /\ hasil' = [hasil EXCEPT ![c] = <<>>]
    /\ UNCHANGED worker

\* leaving the loop: the finally clause closes the socket (what it has not
\* read is dropped), handle_client returns and its worker is idle again
Finish(c, reason) ==
    /\ st' = [st EXCEPT ![c] = "closed"]
    /\ sockbuf' = [sockbuf EXCEPT ![c] = <<>>]
    /\ ended' = [ended EXCEPT ![c] = reason]
    /\ worker' = [w \in Workers |-> IF worker[w] = c THEN 0 ELSE worker[w]]
    /\ buffer' = [buffer EXCEPT ![c] = <<>>]
    /\ hasil' = [hasil EXCEPT ![c] = <<>>]

\* data = connection.recv(1024*1024); buffer += data.decode()
Recv(c) ==
    /\ st[c] = "running"
    /\ pc[c] = "recv"
    /\ sockbuf[c] # <<>>
    /\ LET n == Min(Len(sockbuf[c]), RecvSize)
           data == SubSeq(sockbuf[c], 1, n)
       IN  /\ rcvd' = [rcvd EXCEPT ![c] = @ \o data]
           /\ IF Decodable(data)
              THEN /\ sockbuf' = [sockbuf EXCEPT ![c] = SubSeq(@, n + 1, Len(@))]
                   /\ buffer' = [buffer EXCEPT ![c] = @ \o decode(data)]
                   /\ pc' = [pc EXCEPT ![c] = NextPc(buffer'[c])]
                   /\ UNCHANGED <<st, ended, worker, hasil>>
              ELSE /\ Finish(c, "decode")
                   /\ UNCHANGED pc
    /\ UNCHANGED <<protoVars, ctlVars, tosend, peer, out, cmds, atstart, backlog, queue, ranby>>

\* recv returns b'' after the client's FIN: break
RecvEof(c) ==
    /\ st[c] = "running"
    /\ pc[c] = "recv"
    /\ sockbuf[c] = <<>>
    /\ peer[c] \in {"shutwr", "closed"}
    /\ Finish(c, "eof")
    /\ UNCHANGED <<protoVars, ctlVars, tosend, peer, pc, out, rcvd, cmds,
                   atstart, backlog, queue, ranby>>

\* recv raises socket.timeout: nothing arrived for the 1800 s of settimeout
RecvTimeout(c) ==
    /\ st[c] = "running"
    /\ pc[c] = "recv"
    /\ sockbuf[c] = <<>>
    /\ peer[c] = "open"
    /\ Finish(c, "timeout")
    /\ UNCHANGED <<protoVars, ctlVars, tosend, peer, pc, out, rcvd, cmds,
                   atstart, backlog, queue, ranby>>

\* recv raises ConnectionResetError: the client is gone and has reset the connection
RecvError(c) ==
    /\ st[c] = "running"
    /\ pc[c] = "recv"
    /\ peer[c] = "closed"
    /\ Finish(c, "recv_error")
    /\ UNCHANGED <<protoVars, ctlVars, tosend, peer, pc, out, rcvd, cmds,
                   atstart, backlog, queue, ranby>>

\* a loop that splits the next frame off before the last response is sent
CanHandle_Early(c) == pc[c] \in {"handle", "send"} /\ Contains(buffer[c], DELIM)

\* whether the session is at line 25, about to split a frame off the buffer
CanHandle(c) == pc[c] = "handle"

\* command, buffer = buffer.split("\r\n\r\n", 1); hasil = fp.proses_string(command)
Handle(c, listing) ==
    /\ st[c] = "running"
    /\ CanHandle(c)
    /\ LET parts == split(buffer[c], DELIM, 1)
           r == proses_string(fs, parts[1], listing)
       IN  /\ buffer' = [buffer EXCEPT ![c] = parts[2]]
           /\ cmds' = [cmds EXCEPT ![c] = Append(@, parts[1])]
           /\ hasil' = [hasil EXCEPT ![c] = <<r.resp>>]
           /\ fs' = r.fs
    /\ pc' = [pc EXCEPT ![c] = "send"]
    /\ UNCHANGED <<fs0, suite, budget, calls, ctlVars, tosend, sockbuf, peer, st, out, rcvd,
                   atstart, ended, backlog, queue, worker, ranby>>

\* a loop that writes an ERROR response and then leaves
Send_ErrorEnds(c) ==
    /\ st[c] = "running"
    /\ pc[c] = "send"
    /\ out' = [out EXCEPT ![c] = @ \o hasil[c]]
    /\ IF hasil[c][1].status = "ERROR"
       THEN /\ Finish(c, "error")
            /\ UNCHANGED pc
       ELSE /\ hasil' = [hasil EXCEPT ![c] = <<>>]
            /\ pc' = [pc EXCEPT ![c] = NextPc(buffer[c])]
            /\ UNCHANGED <<sockbuf, st, buffer, ended, worker>>
    /\ UNCHANGED <<protoVars, ctlVars, tosend, peer, rcvd, cmds,
                   atstart, backlog, queue, ranby>>

\* connection.sendall((hasil + "\r\n\r\n").encode()), then the inner loop's test
Send(c) ==
    /\ st[c] = "running"
    /\ pc[c] = "send"
    /\ out' = [out EXCEPT ![c] = @ \o hasil[c]]
    /\ hasil' = [hasil EXCEPT ![c] = <<>>]
    /\ pc' = [pc EXCEPT ![c] = NextPc(buffer[c])]
    /\ UNCHANGED <<protoVars, ctlVars, tosend, sockbuf, peer, st, buffer, rcvd, cmds,
                   atstart, ended, backlog, queue, worker, ranby>>

\* sendall raises BrokenPipeError or ConnectionResetError: the client is gone
SendError(c) ==
    /\ st[c] = "running"
    /\ pc[c] = "send"
    /\ peer[c] = "closed"
    /\ Finish(c, "send_error")
    /\ UNCHANGED <<protoVars, ctlVars, tosend, peer, pc, out, rcvd, cmds,
                   atstart, backlog, queue, ranby>>

Next ==
    \/ \E c \in Conns : ClientConnect(c)
    \/ \E c \in Conns : ClientSend(c)
    \/ \E c \in Conns : ClientShutdown(c)
    \/ \E c \in Conns : ClientClose(c)
    \/ Accept
    \/ \E w \in Workers : WorkerStart(w)
    \/ \E c \in Conns : Recv(c)
    \/ \E c \in Conns : RecvEof(c)
    \/ \E c \in Conns : RecvTimeout(c)
    \/ \E c \in Conns : RecvError(c)
    \/ \E c \in Conns : \E listing \in Listings(fs) : Handle(c, listing)
    \/ \E c \in Conns : Send(c)
    \/ \E c \in Conns : SendError(c)

Spec == Init /\ [][Next]_vars
SpecSession == InitSession /\ [][Next]_vars
SpecQueue == InitQueue /\ [][Next]_vars

\* command frames of every failure path: no verb, an unknown verb, a missing
\* argument, an invalid filename, a payload that does not decode, a file
\* that is not there, and an I/O failure (the name "." is the storage
\* directory itself)
ErrorCommands ==
    { <<>>, <<SP>>,
      Cmd2(<<"F", "O", "O">>, <<"b", "a", "r">>),
      Cmd1(GET), Cmd1(DELETE), Cmd1(UPLOAD), Cmd2(UPLOAD, NameA),
      Cmd2(GET, <<".", ".", "/">> \o NameSecret),
      Cmd3(UPLOAD, NameA, <<"S", "G", "k">>),
      Cmd2(GET, NameA), Cmd2(DELETE, NameA),
      Cmd3(UPLOAD, NameDot, b64encode(<<72, 105>>)),
      Cmd2(GET, NameDot), Cmd2(DELETE, NameDot) }

\* a failing command and then LIST, in one segment or in two
ErrorPlans ==
    UNION {{<<Frame(e) \o Frame(Cmd1(LIST))>>, <<Frame(e), Frame(Cmd1(LIST))>>} :
            e \in ErrorCommands}

\* one client that sends a failing command and then LIST
InitErrors ==
    /\ InitServer
    /\ peer = [c \in Conns |-> IF c = 1 THEN "new" ELSE "closed"]
    /\ \E plan \in ErrorPlans :
        tosend = [c \in Conns |-> IF c = 1 THEN plan ELSE <<>>]

SpecErrors == InitErrors /\ [][Next]_vars

(***************************************************************************)
(* Properties of the command handlers (SpecProto, SpecReject).             *)
(***************************************************************************)
Verbs == {UPLOAD, GET, LIST, DELETE}

\* every filename the inputs use
AllNames ==
    {NameA, NameB, NameDot, NameSub, NameSecret, NameMax} \cup BadNames \cup BadCharNames

\* the Filename Validator as the specification states it
PassesValidator(name) ==
    /\ name # <<>>
    /\ Len(name) <= 255
    /\ \A i \in 1..Len(name) :
        name[i] \notin {"/", "\\", ":", "*", "?", "\"", "<", ">", "|"}
    /\ \A i \in 1..(Len(name) - 1) : ~(name[i] = "." /\ name[i + 1] = ".")

\* the filenames of the claim on filename rejection
IsRejectedName(name) ==
    \/ Len(name) > 255
    \/ \E i \in 1..Len(name) : name[i] \in {"/", "\\"}
    \/ \E i \in 1..(Len(name) - 1) : name[i] = "." /\ name[i + 1] = "."

IsStoreOf(call, F, B) == call.cmd = Cmd3(UPLOAD, F, b64encode(B))
IsOk(call) == call.resp.status = "OK"
NotFound(F) == Error("File not found: {filename}", F)
InvalidFilename == Error("Invalid filename", <<>>)

\* C3: round trip. A GET of F that directly follows UPLOAD F <base64 of B>, for
\* any bytes B (the empty sequence too) and any F the validator accepts,
\* returns OK with a data_file that decodes to B and file_size = len(B).
C3_RoundTrip ==
    \A i \in 1..(Len(calls) - 1) : \A F \in AllNames, B \in Contents :
        (/\ PassesValidator(F)
         /\ IsStoreOf(calls[i], F, B)
         /\ calls[i + 1].cmd = Cmd2(GET, F))
        => /\ IsOk(calls[i + 1])
           /\ b64decode(calls[i + 1].resp.data_file) = [ok |-> TRUE, data |-> B]
           /\ calls[i + 1].resp.file_size = Len(B)

\* C4: once DELETE F has returned OK, F is absent from the storage directory
\* and a GET of F that directly follows returns ERROR 'File not found'.
C4_RemoveThenFetch ==
    \A i \in 1..Len(calls) : \A F \in AllNames :
        (calls[i].cmd = Cmd2(DELETE, F) /\ IsOk(calls[i]))
        => /\ i = Len(calls) => Append(StorageDir, F) \notin DOMAIN fs
           /\ (i < Len(calls) /\ calls[i + 1].cmd = Cmd2(GET, F))
                => calls[i + 1].resp = NotFound(F)

C4_Witness ==
    /\ fs0 = FsUsed
    /\ Len(calls) = 2
    /\ calls[1].cmd = Cmd2(DELETE, NameA) /\ IsOk(calls[1])
    /\ calls[2].cmd = Cmd2(GET, NameA) /\ calls[2].resp = NotFound(NameA)
    /\ Append(StorageDir, NameA) \notin DOMAIN fs

\* the names stored with OK before call i, and the bytes last stored under one
StoredBefore(i) ==
    {F \in AllNames : \E k \in 1..(i - 1), B \in Contents :
        IsStoreOf(calls[k], F, B) /\ IsOk(calls[k])}
LastStoreBefore(i, F) ==
    CHOOSE k \in 1..(i - 1) :
        /\ \E B \in Contents : IsStoreOf(calls[k], F, B) /\ IsOk(calls[k])
        /\ \A m \in (k + 1)..(i - 1) :
            ~(\E B \in Contents : IsStoreOf(calls[m], F, B) /\ IsOk(calls[m]))
LastStoredBytes(i, F) ==
    CHOOSE B \in Contents : IsStoreOf(calls[LastStoreBefore(i, F)], F, B)

\* C5: from an empty storage directory, with no DELETE so far, a LIST after
\* OK UPLOADs of K distinct names returns OK, count = K, and exactly those K
\* names, each with the length of the bytes last stored under it.
C5_ListCount ==
    \A i \in 1..Len(calls) :
        (/\ fs0 = FsEmpty
         /\ calls[i].cmd = Cmd1(LIST)
         /\ \A k \in 1..(i - 1) : \A F \in AllNames : calls[k].cmd # Cmd2(DELETE, F))
        => LET r == calls[i].resp
               K == Cardinality(StoredBefore(i))
           IN  /\ r.status = "OK"
               /\ r.count = K
               /\ Len(r.files) = K
               /\ {r.files[j].filename : j \in 1..Len(r.files)} = StoredBefore(i)
               /\ \A j \in 1..Len(r.files) :
                    r.files[j].size = Len(LastStoredBytes(i, r.files[j].filename))

C5_Witness ==
    /\ fs0 = FsEmpty
    /\ Len(calls) = 3
    /\ IsStoreOf(calls[1], NameA, <<72, 105>>) /\ IsOk(calls[1])
    /\ IsStoreOf(calls[2], NameB, <<0, 255, 16>>) /\ IsOk(calls[2])
    /\ calls[3].cmd = Cmd1(LIST)
    /\ calls[3].resp.count = 2
    /\ calls[3].resp.files = <<[filename |-> NameB, size |-> 3],
                               [filename |-> NameA, size |-> 2]>>

\* the call a step makes
Called == calls'[Len(calls')]
IsCall == calls' # calls
HasPayload(call, v, F) == \E B \in Contents : call.cmd = Cmd3(v, F, b64encode(B))

\* C6 as stated: a command whose filename contains '..', '/' or '\', or is
\* longer than 255 characters, returns ERROR 'Invalid filename' under each of
\* the four verbs, with or without a payload, and changes no file.
C6_AllVerbsReject ==
    [][\A v \in Verbs, F \in AllNames :
        (IsCall /\ IsRejectedName(F)
            /\ (Called.cmd = Cmd2(v, F) \/ HasPayload(Called, v, F)))
        => (Called.resp = InvalidFilename /\ fs' = fs)]_vars

\* C6 as amended: such a command returns ERROR 'Invalid filename' under GET,
\* DELETE and UPLOAD with a payload; UPLOAD without a payload returns ERROR
\* 'UPLOAD command requires filename and content'; LIST ignores the argument
\* and returns OK; in every case no file changes.
C6_Rejection ==
    [][\A F \in AllNames :
        (IsCall /\ IsRejectedName(F)) =>
            /\ (Called.cmd \in {Cmd2(GET, F), Cmd2(DELETE, F)}
                    \/ HasPayload(Called, UPLOAD, F))
                => (Called.resp = InvalidFilename /\ fs' = fs)
            /\ Called.cmd = Cmd2(UPLOAD, F)
                => /\ Called.resp =
                        Error("UPLOAD command requires filename and content", <<>>)
                   /\ fs' = fs
            /\ Called.cmd = Cmd2(LIST, F)
                => (Called.resp.status = "OK" /\ fs' = fs)]_vars

C6_Witness ==
    /\ Len(calls) = 2
    /\ HasPayload(calls[1], UPLOAD, NameLong) /\ calls[1].resp = InvalidFilename
    /\ calls[2].cmd = Cmd2(DELETE, <<".", ".", "/">> \o NameSecret)
    /\ calls[2].resp = InvalidFilename
    /\ fs = fs0

\* C7: every file a command writes, reads or removes is a direct entry of the
\* storage directory whose name passes the validator, and nothing outside
\* the storage directory is created, changed or removed.
C7_StorageBoundary ==
    /\ \A i \in 1..Len(calls) : \A a \in calls[i].acc :
        \E F \in AllNames : PassesValidator(F) /\ a[2] = Append(StorageDir, F)
    /\ \A p \in DOMAIN fs0 :
        (Len(p) <= Len(StorageDir) \/ SubSeq(p, 1, Len(StorageDir)) # StorageDir)
            => (p \in DOMAIN fs /\ fs[p] = fs0[p])
    /\ \A p \in DOMAIN fs \ DOMAIN fs0 :
        \E F \in AllNames : PassesValidator(F) /\ p = Append(StorageDir, F)

C7_Witness ==
    /\ Len(calls) = 2
    /\ calls[1].cmd = Cmd3(UPLOAD, <<".", ".", "/">> \o NameSecret, b64encode(<<72>>))
    /\ calls[1].resp = InvalidFilename
    /\ calls[2].cmd = Cmd3(UPLOAD, NameMax, b64encode(<<72>>))
    /\ calls[2].acc = {<<"write", Append(StorageDir, NameMax)>>}
    /\ Append(StorageDir, NameMax) \in DOMAIN fs

(***************************************************************************)
(* Handlers running at the same time in different worker processes, taken  *)
(* system call by system call on the filesystem they share.  race[p] is    *)
(* one call of proses_string: cmd, the command string; pc, "call" (not     *)
(* begun), "open" (line 89), "write" (line 90 and the close), "remove"     *)
(* (line 214), "isfile" (line 164), "getsize" (line 165), "done"; data,    *)
(* the decoded payload; live, whether the file it has open is still the    *)
(* one in the directory; names, what of os.listdir's result the loop has   *)
(* still to visit; files, the entries collected; seen, the names present   *)
(* in the storage directory at some moment since os.listdir (history);     *)
(* resp, the response returned.                                            *)
(***************************************************************************)
Racers == 1..NumRacers

RaceCommands ==
    { Cmd3(UPLOAD, NameA, b64encode(<<72, 105>>)),
      Cmd3(UPLOAD, NameA, b64encode(<<0, 255, 16>>)),
      Cmd2(DELETE, NameA),
      Cmd1(LIST) }

RaceCall(cmd) ==
    [cmd |-> cmd, pc |-> "call", data |-> <<>>, live |-> FALSE, names |-> <<>>,
     files |-> <<>>, seen |-> {}, resp |-> <<>>]

\* every handler call has its command and has not begun
InitRace ==
    /\ fs \in {FsEmpty, FsUsed}
    /\ fs0 = fs
    /\ suite = "none"
    /\ budget = 0
    /\ calls = <<>>
    /\ InitNoConns
    /\ race \in [Racers -> {RaceCall(cmd) : cmd \in RaceCommands}]

RaceParts(p) == split(strip(race[p].cmd), <<SP>>, 2)
RaceVerb(p) == upper(RaceParts(p)[1])
RacePath(p) == path_join(storage_path, RaceParts(p)[2])

\* the handler returns: the call is over with its response
Return(rec, resp) == [rec EXCEPT !.pc = "done", !.resp = <<resp>>]

\* what a LIST in progress has seen of the storage directory: the names in
\* it before and after a step
Observe(rec, fsys) ==
    IF rec.pc \in {"isfile", "getsize"}
    THEN [rec EXCEPT !.seen = @ \cup DirNames(fs) \cup DirNames(fsys)]
    ELSE rec

\* the step of p: its record becomes rec, the filesystem fsys, and the open
\* files of the others that were at a removed path are no longer in the directory
RaceStep(p, rec, fsys) ==
    /\ race' = [q \in Racers |->
                 IF q = p THEN Observe(rec, fsys)
                 ELSE LET o == Observe(race[q], fsys) IN
                      IF o.pc = "write" /\ ~path_exists(fsys, RacePath(q))
                      THEN [o EXCEPT !.live = FALSE] ELSE o]
    /\ fs' = fsys
    /\ UNCHANGED <<fs0, suite, budget, calls, connVars, mainVars>>

\* _handle_upload up to the decoded payload (lines 61-85)
UploadCheck(p) ==
    /\ race[p].pc = "call"
    /\ RaceVerb(p) = UPLOAD
    /\ LET parts == RaceParts(p) IN
       IF Len(parts) < 3
       THEN RaceStep(p, Return(race[p],
                Error("UPLOAD command requires filename and content", <<>>)), fs)
       ELSE IF ~_is_valid_filename(parts[2])
       THEN RaceStep(p, Return(race[p], Error("Invalid filename", <<>>)), fs)
       ELSE LET dec == b64decode(parts[3]) IN
            IF ~dec.ok
            THEN RaceStep(p, Return(race[p], Error("Invalid base64 content", <<>>)), fs)
            ELSE RaceStep(p, [race[p] EXCEPT !.pc = "open", !.data = dec.data], fs)

\* open(file_path, 'wb'): the file is created, or truncated to no bytes
UploadOpen(p) ==
    /\ race[p].pc = "open"
    /\ LET w == WriteFile(fs, RacePath(p), <<>>) IN
       IF w.err # ""
       THEN RaceStep(p, Return(race[p], Error("Upload failed: {e}", <<w.err>>)), fs)
       ELSE RaceStep(p, [race[p] EXCEPT !.pc = "write", !.live = TRUE], w.fs)

\* the bytes of a file after data is written at its beginning
WriteAt(old, data) == data \o SubSeq(old, Len(data) + 1, Len(old))

\* f.write(file_content) and the close that ends the with statement: the
\* payload goes to the start of the file that was opened; then the OK response
UploadWrite(p) ==
    /\ race[p].pc = "write"
    /\ LET path == Resolve(fs, RacePath(p)).path
           resp == [status |-> "OK",
                    data |-> <<"File {filename} uploaded successfully", RaceParts(p)[2]>>,
                    file_size |-> Len(race[p].data)]
       IN  RaceStep(p, Return(race[p], resp),
                    IF race[p].live
                    THEN [fs EXCEPT ![path] = FileNode(WriteAt(fs[path].data, race[p].data))]
                    ELSE fs)

\* _handle_delete up to os.path.exists (lines 188-211)
DeleteCheck(p) ==
    /\ race[p].pc = "call"
    /\ RaceVerb(p) = DELETE
    /\ LET parts == RaceParts(p) IN
       IF Len(parts) < 2
       THEN RaceStep(p, Return(race[p],
                Error("DELETE command requires filename", <<>>)), fs)
       ELSE IF ~_is_valid_filename(parts[2])
       THEN RaceStep(p, Return(race[p], Error("Invalid filename", <<>>)), fs)
       ELSE IF ~path_exists(fs, RacePath(p))
       THEN RaceStep(p, Return(race[p],
                Error("File not found: {filename}", parts[2])), fs)
       ELSE RaceStep(p, [race[p] EXCEPT !.pc = "remove"], fs)

\* os.remove(file_path), then the OK response or the except clause
DeleteRemove(p) ==
    /\ race[p].pc = "remove"
    /\ LET r == RemoveFile(fs, RacePath(p)) IN
       IF r.err # ""
       THEN RaceStep(p, Return(race[p], Error("Delete failed: {e}", <<r.err>>)), fs)
       ELSE RaceStep(p, Return(race[p],
                [status |-> "OK",
                 data |-> <<"File {filename} deleted successfully", RaceParts(p)[2]>>]),
                r.fs)

\* the response of _handle_list with the entries collected
ListResponse(files) ==
    [status |-> "OK", data |-> <<"File list retrieved successfully", <<>> >>,
     files |-> files, count |-> Len(files)]

\* the loop of _handle_list goes on with the names left, or returns
ListNext(rec, names, files) ==
    IF names = <<>>
    THEN Return([rec EXCEPT !.names = names, !.files = files], ListResponse(files))
    ELSE [rec EXCEPT !.pc = "isfile", !.names = names, !.files = files]

\* os.listdir(self.storage_path)
ListDir(p, listing) ==
    /\ race[p].pc = "call"
    /\ RaceVerb(p) = LIST
    /\ RaceStep(p, ListNext([race[p] EXCEPT !.seen = DirNames(fs)], listing, <<>>), fs)

\* os.path.isfile(file_path)
ListIsFile(p) ==
    /\ race[p].pc = "isfile"
    /\ IF path_isfile(fs, path_join(storage_path, Head(race[p].names)))
       THEN RaceStep(p, [race[p] EXCEPT !.pc = "getsize"], fs)
       ELSE RaceStep(p, ListNext(race[p], Tail(race[p].names), race[p].files), fs)

\* os.path.getsize(file_path), then files.append, or the except clause
ListGetSize(p) ==
    /\ race[p].pc = "getsize"
    /\ LET filename == Head(race[p].names)
           file_path == path_join(storage_path, filename)
       IN  IF ~path_exists(fs, file_path)
           THEN RaceStep(p, Return(race[p],
                    Error("List failed: {e}", <<"FileNotFoundError">>)), fs)
           ELSE RaceStep(p, ListNext(race[p], Tail(race[p].names),
                    Append(race[p].files,
                           [filename |-> filename,
                            size |-> path_getsize(fs, file_path)])), fs)

NextRace ==
    \/ \E p \in Racers : UploadCheck(p)
    \/ \E p \in Racers : UploadOpen(p)
    \/ \E p \in Racers : UploadWrite(p)
    \/ \E p \in Racers : DeleteCheck(p)
    \/ \E p \in Racers : DeleteRemove(p)
    \/ \E p \in Racers : \E listing \in Listings(fs) : ListDir(p, listing)
    \/ \E p \in Racers : ListIsFile(p)
    \/ \E p \in Racers : ListGetSize(p)

SpecRace == InitRace /\ [][NextRace]_vars

(***************************************************************************)
(* Shutdown: Server.signal_handler, installed for SIGINT and SIGTERM       *)
(* before the pool's processes are created, so that the worker processes   *)
(* have it as well.                                                        *)
(***************************************************************************)
\* the server process among the processes a signal reaches (workers are 1..PoolSize)
MainProcess == 0

\* the ways the session loop is left by itself
LoopExits == {"eof", "timeout", "decode", "recv_error", "send_error"}

\* the set of the elements of a sequence
Range(seq) == {seq[i] : i \in DOMAIN seq}

\* the signal reaches the server process while it is in the accept loop:
\* signal_handler runs in the main thread and enters
\* self.executor.shutdown(wait=True)
SignalServer ==
    /\ main = "accept"
    /\ MainProcess \notin sigto
    /\ main' = "drain"
    /\ sigto' = sigto \cup {MainProcess}
    /\ atsignal' = Range(queue)
    /\ UNCHANGED <<protoVars, connVars, lsock, race>>

\* executor.shutdown(wait=True) returns when no work item is pending or
\* running; then self.my_socket.close() (the connections never accepted are
\* reset) and sys.exit(0), which leaves run() through its finally clause
\* and the with statement
DrainDone ==
    /\ main = "drain"
    /\ queue = <<>>
    /\ \A w \in Workers : worker[w] = 0
    /\ lsock' = "closed"
    /\ st' = [c \in Conns |-> IF st[c] = "backlog" THEN "reset" ELSE st[c]]
    /\ backlog' = <<>>
    /\ main' = "exited"
    /\ UNCHANGED <<protoVars, tosend, sockbuf, peer, pc, buffer, hasil, out, rcvd,
                   cmds, atstart, ended, queue, worker, ranby, sigto, atsignal, race>>

\* the signal reaches a worker process that is inside handle_client (a signal
\* from the terminal goes to every process of the group).  The worker runs
\* the handler it has from the server process: it either never returns from
\* executor.shutdown (the copy of the executor's lock it got when it was
\* created is held), or gets to sys.exit(0); SystemExit is not caught by
\* "except Exception", so the finally clause closes the connection
SignalWorker(w) ==
    /\ w \notin sigto
    /\ worker[w] # 0
    /\ sigto' = sigto \cup {w}
    /\ LET c == worker[w] IN
        \/ /\ pc' = [pc EXCEPT ![c] = "hung"]
           /\ UNCHANGED <<st, sockbuf, ended, worker, buffer, hasil>>
        \/ /\ Finish(c, "signal")
           /\ UNCHANGED pc
    /\ UNCHANGED <<protoVars, tosend, peer, out, rcvd, cmds, atstart, backlog,
                   queue, ranby, main, lsock, atsignal, race>>

NextShutdown ==
    \/ Next
    \/ SignalServer
    \/ DrainDone
    \/ \E w \in Workers : SignalWorker(w)

\* PoolSize + 1 clients, one command each, and a termination signal
SpecShutdown == Init /\ [][NextShutdown]_vars

\* C11: once the signal has reached the server no connection is accepted or
\* submitted; a running session is left only by its own loop (it is never
\* ended by the signal and never stopped for good); and the listening socket
\* is closed and the server has exited only when no session is queued or
\* running.
C11_GracefulShutdown ==
    [][/\ MainProcess \in sigto
            => \A c \in Conns : st[c] = "backlog" => st'[c] \in {"backlog", "reset"}
       /\ \A c \in Conns :
            /\ pc'[c] # "hung"
            /\ (st[c] = "running" /\ st'[c] # "running")
                    => (st'[c] = "closed" /\ ended'[c] \in LoopExits)
       /\ (lsock' = "closed" \/ main' = "exited")
            => \A c \in Conns : st'[c] \notin {"queued", "running"}]_vars

\* C11 while the signal has reached the server process alone (not a claim's
\* formula: it shows that C11 fails through the workers' handlers alone)
C11_ServerSignalOnly ==
    [][sigto' \subseteq {MainProcess} =>
       /\ MainProcess \in sigto
            => \A c \in Conns : st[c] = "backlog" => st'[c] \in {"backlog", "reset"}
       /\ \A c \in Conns :
            /\ pc'[c] # "hung"
            /\ (st[c] = "running" /\ st'[c] # "running")
                    => (st'[c] = "closed" /\ ended'[c] \in LoopExits)
       /\ (lsock' = "closed" \/ main' = "exited")
            => \A c \in Conns : st'[c] \notin {"queued", "running"}]_vars

(***************************************************************************)
(* Properties of the session loop (SpecSession).                           *)
(***************************************************************************)
\* the complete, delimiter-terminated frames of a byte stream, in order
RECURSIVE CompleteFrames(_)
CompleteFrames(bytes) ==
    LET i == Find(bytes, DELIM) IN
    IF i = 0 THEN <<>>
    ELSE <<SubSeq(bytes, 1, i - 1)>>
            \o CompleteFrames(SubSeq(bytes, i + Len(DELIM), Len(bytes)))

\* the command strings of the complete frames of a byte stream
CommandsOf(bytes) ==
    LET frames == CompleteFrames(bytes) IN
    [k \in 1..Len(frames) |-> decode(frames[k])]

\* the responses to a sequence of commands run one after the other
RECURSIVE Replay(_, _)
Replay(fsys, commands) ==
    IF commands = <<>> THEN <<>>
    ELSE LET r == proses_string(fsys, Head(commands),
                                CHOOSE l \in Listings(fsys) : TRUE)
         IN  <<r.resp>> \o Replay(r.fs, Tail(commands))

\* the session waits in recv or has ended, and no socket error ended it
Settled(c) ==
    /\ st[c] = "closed" \/ (st[c] = "running" /\ pc[c] = "recv")
    /\ ended[c] \notin {"recv_error", "send_error"}

\* C1: however the client's bytes are cut into reads, whenever the session
\* waits for more bytes or has ended it has written exactly one response per
\* complete frame it has received, in the order of the frames, and none for
\* the bytes after the last delimiter.
C1_OneResponsePerFrame ==
    \A c \in Conns :
        Settled(c) => /\ cmds[c] = CommandsOf(rcvd[c])
                      /\ out[c] = Replay(fs0, CommandsOf(rcvd[c]))

\* C1 for the sessions that no decoding error ended (not a claim's formula:
\* it shows that C1 fails through bytes.decode() alone)
C1_UnlessDecodeError ==
    \A c \in Conns :
        (Settled(c) /\ ended[c] # "decode")
            => /\ cmds[c] = CommandsOf(rcvd[c])
               /\ out[c] = Replay(fs0, CommandsOf(rcvd[c]))

\* C2: the commands of a session are never more than one ahead of its
\* responses, a response is pending only while the session is about to send
\* it (or the send failed), so a handler runs only after every earlier
\* response has been written; and the responses are
\* those of the commands run one after the other: after UPLOAD a <payload>
\* and LIST, the second response lists a with the payload's length.
C2_Sequential ==
    \A c \in Conns :
        /\ Len(out[c]) <= Len(cmds[c])
        /\ Len(cmds[c]) <= Len(out[c]) + 1
        /\ Len(cmds[c]) = Len(out[c]) + 1
            => \/ st[c] = "running" /\ pc[c] = "send" /\ Len(hasil[c]) = 1
               \/ ended[c] = "send_error"
        /\ out[c] = SubSeq(Replay(fs0, cmds[c]), 1, Len(out[c]))
        /\ \A k \in 1..(Len(out[c]) - 1) : \A B \in Contents :
            (/\ cmds[c][k] = Cmd3(UPLOAD, NameA, b64encode(B))
             /\ out[c][k].status = "OK"
             /\ cmds[c][k + 1] = Cmd1(LIST))
            => /\ out[c][k + 1].status = "OK"
               /\ \E j \in 1..Len(out[c][k + 1].files) :
                    out[c][k + 1].files[j] = [filename |-> NameA, size |-> Len(B)]

\* both frames were waiting when the session began, so one recv returned both
C2_Witness ==
    /\ atstart[1] = Frame(Cmd3(UPLOAD, NameA, b64encode(<<72, 105>>)))
                        \o Frame(Cmd1(LIST))
    /\ cmds[1] = <<Cmd3(UPLOAD, NameA, b64encode(<<72, 105>>)), Cmd1(LIST)>>
    /\ Len(out[1]) = 2
    /\ out[1][1].status = "OK" /\ out[1][1].file_size = 2
    /\ out[1][2].files = <<[filename |-> NameA, size |-> 2]>>

(***************************************************************************)
(* Properties of the worker pool (Spec, SpecQueue).                        *)
(***************************************************************************)
Running == {c \in Conns : st[c] = "running"}
Ended == {c \in Conns : st[c] = "closed"}
Waiting == {c \in Conns : st[c] \in {"none", "backlog", "queued"}}

\* C8: at most PoolSize connections are inside a session loop; a connection
\* that no worker has started has no command run and no response written;
\* and while none of the PoolSize + 1 sessions has ended, some connection
\* is unanswered.
C8_ConcurrencyBound ==
    /\ Cardinality(Running) <= PoolSize
    /\ \A c \in Waiting : out[c] = <<>> /\ cmds[c] = <<>>
    /\ Ended = {} => \E c \in Conns : out[c] = <<>>

\* every worker is busy and has answered; the last connection has sent its
\* command, waits in the queue and is unanswered
C8_Witness ==
    /\ Cardinality(Running) = PoolSize
    /\ \A c \in Running : out[c] # <<>> /\ pc[c] = "recv"
    /\ st[NumConns] = "queued"
    /\ sockbuf[NumConns] = Frame(Cmd1(LIST))
    /\ out[NumConns] = <<>>

\* C9: a connection that waited in the queue and whose client is still there
\* has, once its session has ended, a response for every complete frame
\* that had arrived while it waited, in order.
C9_QueuedFramesAnswered ==
    \A c \in Conns :
        (st[c] = "closed" /\ ended[c] \notin {"recv_error", "send_error"})
            => /\ Len(out[c]) >= Len(CommandsOf(atstart[c]))
               /\ SubSeq(cmds[c], 1, Len(CommandsOf(atstart[c]))) = CommandsOf(atstart[c])

\* C10: a worker executes the session of at most one connection; a running
\* session is executed by exactly one worker, the only one that has ever run
\* it; a waiting connection has no worker, an ended one has none any more
\* and is never run again.
C10_State ==
    /\ \A w \in Workers :
        Cardinality({c \in Running : w \in ranby[c]}) <= 1
    /\ \A c \in Running :
        \E w \in Workers : /\ worker[w] = c
                           /\ ranby[c] = {w}
                           /\ \A v \in Workers \ {w} : worker[v] # c
    /\ \A c \in Conns : Cardinality(ranby[c]) <= 1
    /\ \A c \in Waiting : ranby[c] = {} /\ \A w \in Workers : worker[w] # c
    /\ \A c \in Ended : \A w \in Workers : worker[w] # c

C12_ErrorsKeepSession ==
    \A c \in Conns :
        /\ \A k \in 1..Len(out[c]) :
            /\ cmds[c][k] \in ErrorCommands => out[c][k].status = "ERROR"
            /\ cmds[c][k] = Cmd1(LIST) => out[c][k].status = "OK"
        /\ ended[c] \in {"", "eof", "timeout", "recv_error", "send_error"}
        /\ Settled(c) => /\ cmds[c] = CommandsOf(rcvd[c])
                         /\ Len(out[c]) = Len(cmds[c])
                         /\ out[c] = Replay(fs0, cmds[c])

\* the payload did not decode; the session is still open and has answered
\* the LIST that followed
C12_Witness ==
    /\ st[1] = "running"
    /\ cmds[1] = <<Cmd3(UPLOAD, NameA, <<"S", "G", "k">>), Cmd1(LIST)>>
    /\ Len(out[1]) = 2
    /\ out[1][1] = Error("Invalid base64 content", <<>>)
    /\ out[1][2].status = "OK" /\ out[1][2].count = 0

(***************************************************************************)
(* Properties of a session that ends by an exception (SpecQueue).          *)
(***************************************************************************)
\* the session of c is left by the except clause in this step
Fails(c) ==
    /\ st[c] = "running"
    /\ st'[c] = "closed"
    /\ ended'[c] \in {"decode", "recv_error", "send_error"}

C14_SocketRelease ==
    [][\A c \in Conns :
        /\ ended'[c] # "" => /\ st'[c] = "closed"
                             /\ ended'[c] \in LoopExits
                             /\ \A w \in Workers : worker'[w] # c
        /\ st'[c] = "closed" => ended'[c] # ""
        /\ ended[c] # "" => /\ out'[c] = out[c]
                            /\ st'[c] = "closed"
                            /\ ended'[c] = ended[c]]_vars

\* one session was left by the decoding error with its frame unanswered,
\* the other by the timeout or EOF after its response; both sockets are closed
C14_Witness ==
    \E c \in Conns, d \in Conns :
        /\ st[c] = "closed" /\ ended[c] = "decode" /\ out[c] = <<>>
        /\ st[d] = "closed" /\ ended[d] \in {"timeout", "eof"} /\ Len(out[d]) = 1

(***************************************************************************)
(* Properties of the dispatch on the verb (SpecVerbs).                     *)
(***************************************************************************)
\* C15: a command whose verb is none of UPLOAD, GET, LIST, DELETE in any
\* case gets ERROR 'Unknown command: ' with the verb in upper case and
\* leaves the filesystem as it was; a command with a known verb in lower or
\* mixed case gets the response, and has the effect, of the same command
\* with the verb in upper case.
C15_UnknownVerb ==
    [][IsCall =>
        /\ \A u \in UnknownCases : Called.cmd = u.cmd =>
            /\ Called.resp = Error("Unknown command: {command}", u.verb)
            /\ fs' = fs
        /\ \A k \in KnownCases : Called.cmd = k.cmd =>
            \E l \in Listings(fs) :
                /\ Called.resp = proses_string(fs, k.same, l).resp
                /\ fs' = proses_string(fs, k.same, l).fs
                /\ Called.resp.data[1] # "Unknown command: {command}"]_vars

\* 'foo bar' was answered with the verb FOO, and 'Get a' with the file
C15_Witness ==
    /\ Len(calls) = 2
    /\ calls[1].cmd = Cmd2(<<"f", "o", "o">>, <<"b", "a", "r">>)
    /\ calls[1].resp = Error("Unknown command: {command}", <<"F", "O", "O">>)
    /\ calls[2].cmd = Cmd2(<<"G", "e", "t">>, NameA)
    /\ calls[2].resp.status = "OK" /\ calls[2].resp.file_size = 2

(***************************************************************************)
(* Properties of UPLOAD's payload (SpecPayload).                           *)
(***************************************************************************)
\* the file a in the storage directory
PathA == Append(StorageDir, NameA)

\* C16: UPLOAD a <payload> with a payload that is not the base64 text of any
\* bytes gets ERROR and leaves the filesystem, the file a included, as it
\* was; with a payload that is, it gets OK with the number of decoded bytes
\* and a holds exactly those bytes.
C16_InvalidPayload ==
    [][IsCall =>
        /\ \A p \in InvalidPayloads : Called.cmd = Cmd3(UPLOAD, NameA, p) =>
            /\ Called.resp.status = "ERROR"
            /\ fs' = fs
        /\ \A B \in Contents \ {<<>>} :
            Called.cmd = Cmd3(UPLOAD, NameA, b64encode(B)) =>
                /\ Called.resp.status = "OK"
                /\ Called.resp.file_size = Len(B)
                /\ PathA \in DOMAIN fs'
                /\ fs'[PathA] = FileNode(B)]_vars

\* C16 with "the payload does not decode" taken as "base64.b64decode raises"
\* (not a claim's formula: the file is written exactly when the decoder
\* returns, with what it returns)
C16_DecoderRaises ==
    [][IsCall =>
        \A p \in ValidPayloads \cup InvalidPayloads :
            Called.cmd = Cmd3(UPLOAD, NameA, p) =>
                IF b64decode(p).ok
                THEN /\ Called.resp.status = "OK"
                     /\ Called.resp.file_size = Len(b64decode(p).data)
                     /\ fs'[PathA] = FileNode(b64decode(p).data)
                ELSE /\ Called.resp = Error("Invalid base64 content", <<>>)
                     /\ fs' = fs]_vars

(***************************************************************************)
(* Properties of handlers running at the same time (SpecRace).             *)
(***************************************************************************)
Done(p) == race[p].pc = "done"
Ok(p) == Done(p) /\ race[p].resp[1].status = "OK"
IsUploadOfA(p) == \E B \in Contents : race[p].cmd = Cmd3(UPLOAD, NameA, b64encode(B))

\* C17: when every handler is an UPLOAD of a, the payloads all differ and
\* all have returned OK, the file a holds exactly the payload of one of
\* them, and its size is the file_size that one was told.
C17_LastWriterWins ==
    (/\ \A p \in Racers : IsUploadOfA(p) /\ Ok(p)
     /\ \A p, q \in Racers : p # q => race[p].cmd # race[q].cmd)
        => \E p \in Racers :
            /\ fs[PathA] = FileNode(race[p].data)
            /\ Len(fs[PathA].data) = race[p].resp[1].file_size

\* C18: when every handler is DELETE a and a was there, never more than one
\* has returned OK, and a is gone once one has; when all have returned,
\* exactly one has OK and each of the others an ERROR response.
C18_ConcurrentRemove ==
    (/\ \A p \in Racers : race[p].cmd = Cmd2(DELETE, NameA)
     /\ PathA \in DOMAIN fs0)
        => /\ Cardinality({p \in Racers : Ok(p)}) <= 1
           /\ (\E p \in Racers : Ok(p)) => PathA \notin DOMAIN fs
           /\ (\A p \in Racers : Done(p)) =>
                /\ Cardinality({p \in Racers : Ok(p)}) = 1
                /\ \A p \in Racers : Len(race[p].resp) = 1
                /\ \A p \in Racers : ~Ok(p) => race[p].resp[1].status = "ERROR"

\* both handlers found a, the first removed it and the second's os.remove raised
C18_Witness ==
    /\ race[1].cmd = Cmd2(DELETE, NameA) /\ race[2].cmd = Cmd2(DELETE, NameA)
    /\ Ok(1)
    /\ Done(2)
    /\ race[2].resp[1] = Error("Delete failed: {e}", <<"FileNotFoundError">>)
    /\ PathA \notin DOMAIN fs

\* C19: a LIST that has returned, whatever the other handlers did meanwhile,
\* has status OK, a count equal to the number of its entries, and entries
\* that each name a file that was in the storage directory at some moment
\* since os.listdir.
C19_ListUnderMutation ==
    \A p \in Racers :
        (Done(p) /\ race[p].cmd = Cmd1(LIST)) =>
            /\ race[p].resp[1].status = "OK"
            /\ race[p].resp[1].count = Len(race[p].resp[1].files)
            /\ \A j \in 1..Len(race[p].resp[1].files) :
                race[p].resp[1].files[j].filename \in race[p].seen

\* C19 for the LISTs that return OK, and what the others return (not a
\* claim's formula: LIST fails only when os.path.getsize finds the file gone)
C19_WhenOk ==
    \A p \in Racers :
        (Done(p) /\ race[p].cmd = Cmd1(LIST)) =>
            IF race[p].resp[1].status = "OK"
            THEN /\ race[p].resp[1].count = Len(race[p].resp[1].files)
                 /\ \A j \in 1..Len(race[p].resp[1].files) :
                        race[p].resp[1].files[j].filename \in race[p].seen
            ELSE race[p].resp[1] = Error("List failed: {e}", <<"FileNotFoundError">>)

(***************************************************************************)
(* Properties of the drain at shutdown (SpecShutdown).                     *)
(***************************************************************************)
\* the connection was run as a session that its own loop ended, and every
\* complete frame it received while the client was there has its response
RanInFull(c) ==
    /\ st[c] = "closed"
    /\ ranby[c] # {}
    /\ ended[c] \in LoopExits
    /\ ended[c] \in {"eof", "timeout"} => Len(out[c]) = Len(CompleteFrames(rcvd[c]))

\* C20: when the listening socket is closed and the server has exited, every
\* connection that was queued when the signal reached the server has been
\* run in full, and no session is queued or running.
C20_DrainQueued ==
    (main = "exited" \/ lsock = "closed")
        => /\ \A c \in atsignal : RanInFull(c)
           /\ \A c \in Conns : st[c] \notin {"queued", "running"}

\* C20 while the signal has reached the server process alone (not a claim's
\* formula: executor.shutdown(wait=True) runs the pending work items)
C20_ServerSignalOnly ==
    (sigto \subseteq {MainProcess} /\ (main = "exited" \/ lsock = "closed"))
        => /\ \A c \in atsignal : RanInFull(c)
           /\ \A c \in Conns : st[c] \notin {"queued", "running"}

\* a connection was queued at the signal, has been answered, and the server
\* has exited (not a claim's formula: the case of C20_ServerSignalOnly)
C20_DrainReached ==
    /\ sigto = {MainProcess}
    /\ main = "exited"
    /\ \E c \in atsignal : RanInFull(c) /\ Len(out[c]) = 1

====
